---- MODULE Spec2Model ----
(***************************************************************************)
(* The in-memory span store of appdash (src/span.go): SpanIDs, Trace       *)
(* nodes, and memoryStore with Collect / insert / reattachChildren /       *)
(* Trace / Traces.                                                         *)
(*                                                                         *)
(* A Trace node is a heap object; a *Trace is its index in ms.heap, in     *)
(* allocation order.  ms.trace and ms.span are the two maps of the store,  *)
(* as functions whose DOMAIN is the set of keys present.                   *)
(***************************************************************************)
EXTENDS Integers, Sequences, FiniteSets, TLC

VARIABLES
    ms,        \* memoryStore: [trace, span] and the Trace nodes it owns (heap)
    mu,        \* memoryStore.Mutex: 0 when unlocked, else the thread holding it
    pc,        \* per thread: where it is
    frame,     \* per thread: arguments and locals of the call it is in
    ret,       \* what the call that returned last returned
    panicked,  \* a panic("dst == src") has been raised
    hist,      \* the Collect calls so far, in the order they took the lock
    workload,  \* the Collect calls the producers may make
    sid,       \* the SpanID generated last
    text       \* the string that is formatted into and parsed

vars == <<ms, mu, pc, frame, ret, panicked, hist, workload, sid, text>>

(***************************************************************************)
(* Bounds of the model.                                                    *)
(***************************************************************************)
MaxCalls == 3
NumSpans == 4
MaxAnyCalls == 4
MaxID == 2
MaxRecollect == 4

Threads == {1, 2}

(***************************************************************************)
(* Identifiers.  ID 0 is the zero value ("no parent").                     *)
(***************************************************************************)
SpanID(t, s, p) == [Trace |-> t, Span |-> s, Parent |-> p]

IsRoot(id) == id.Parent = 0

NoAnnotations == <<>>

Call(id, as) == [id |-> id, as |-> as]

(***************************************************************************)
(* Maps.                                                                   *)
(***************************************************************************)
EmptyMap == [k \in {} |-> 0]

Put(f, k, v) == [x \in (DOMAIN f) \cup {k} |-> IF x = k THEN v ELSE f[x]]

NewMemoryStore == [trace |-> EmptyMap, span |-> EmptyMap, heap |-> <<>>]

NewTrace(id, as) == [ID |-> id, Annotations |-> as, Sub |-> <<>>]

(***************************************************************************)
(* insert: t goes under its recorded parent if the trace's span map has    *)
(* it, otherwise under root as a temporary child.                          *)
(***************************************************************************)
\* insert without the fallback to the root
insertNoFallback(m, root, t) ==
    LET tid == m.heap[t].ID
        present == tid.Parent \in DOMAIN m.span[tid.Trace]
    IN  IF present
        THEN [m EXCEPT !.heap[m.span[tid.Trace][tid.Parent]].Sub = Append(@, t)]
        ELSE m

\* insert with the parent looked up by span id in all traces
insertAnyTrace(m, root, t) ==
    LET tid == m.heap[t].ID
        cands == {n \in DOMAIN m.heap : m.heap[n].ID.Span = tid.Parent}
        p == IF cands # {} THEN CHOOSE n \in cands : \A k \in cands : n <= k ELSE root
    IN  [m EXCEPT !.heap[p].Sub = Append(@, t)]

insert(m, root, t) ==
    LET tid == m.heap[t].ID
        present == tid.Parent \in DOMAIN m.span[tid.Trace]
        p == IF present THEN m.span[tid.Trace][tid.Parent] ELSE root
    IN  [m EXCEPT !.heap[p].Sub = Append(@, t)]

(***************************************************************************)
(* reattachChildren: the children of src whose Parent is dst's Span move   *)
(* to the end of dst's Sub, in order; the others stay.  It panics when     *)
(* dst == src.                                                             *)
(***************************************************************************)
reattachPanics(dst, src) == dst = src

reattachChildren(m, dst, src) ==
    LET isChild(c) == m.heap[c].ID.Parent = m.heap[dst].ID.Span
        moved == SelectSeq(m.heap[src].Sub, isChild)
        sub2 == SelectSeq(m.heap[src].Sub, LAMBDA c : ~isChild(c))
    IN  IF reattachPanics(dst, src) THEN m
        ELSE [m EXCEPT !.heap[dst].Sub = @ \o moved, !.heap[src].Sub = sub2]

(***************************************************************************)
(* The loop of Collect that moves the old root's temporary children (those *)
(* whose Parent is not the old root's Span) to the new root.               *)
(***************************************************************************)
\* the old root keeps its temporary children
moveTempChildrenNone(m, root, oldRoot) == m

\* every child of the old root goes to the new root
moveTempChildrenAll(m, root, oldRoot) ==
    [m EXCEPT !.heap[root].Sub = @ \o m.heap[oldRoot].Sub, !.heap[oldRoot].Sub = <<>>]

moveTempChildren(m, root, oldRoot) ==
    LET isTemp(c) == m.heap[c].ID.Parent # m.heap[oldRoot].ID.Span
        moved == SelectSeq(m.heap[oldRoot].Sub, isTemp)
        sub2 == SelectSeq(m.heap[oldRoot].Sub, LAMBDA c : ~isTemp(c))
    IN  [m EXCEPT !.heap[root].Sub = @ \o moved, !.heap[oldRoot].Sub = sub2]

(***************************************************************************)
(* The steps of Collect.                                                   *)
(***************************************************************************)
\* "Initialize span map if needed."
initSpanMap(m, id) ==
    IF id.Trace \in DOMAIN m.span THEN m
    ELSE [m EXCEPT !.span = Put(@, id.Trace, EmptyMap)]

spanPresent(m, id) ==
    /\ id.Trace \in DOMAIN m.span
    /\ id.Span \in DOMAIN m.span[id.Trace]

\* the node s that Collect works on: the one of the span map, or a new one
spanNode(m, id) ==
    IF spanPresent(m, id) THEN m.span[id.Trace][id.Span] ELSE Len(m.heap) + 1

\* the new annotations in front of the old ones
prependAnnotations(old, as) == as \o old

appendAnnotations(old, as) == old \o as

\* "Create or update span."
createOrUpdate(m, id, as) ==
    LET m1 == initSpanMap(m, id)
        s == spanNode(m, id)
    IN  IF spanPresent(m, id)
        THEN [m1 EXCEPT !.heap[s].Annotations = appendAnnotations(@, as)]
        ELSE [m1 EXCEPT !.heap = Append(@, NewTrace(id, as)),
                        !.span[id.Trace] = Put(@, id.Span, s)]

\* "Create trace tree if it doesn't already exist."
createTree(m, id, s) ==
    IF id.Trace \in DOMAIN m.trace THEN m
    ELSE [m EXCEPT !.trace = Put(@, id.Trace, s)]

\* promotion of the parent of the root only, not of a root span
needPromoteParentOnly(m, id, s, root) ==
    s # root /\ m.heap[root].ID.Parent = id.Span

\* promotion of a root span only, not of the parent of the root
needPromoteRootOnly(m, id, s, root) ==
    s # root /\ IsRoot(id)

\* the condition of the promotion of s to root
needPromote(m, id, s, root) ==
    LET isRoot == IsRoot(id)
        isTempRootParent == m.heap[root].ID.Parent = id.Span
    IN  s # root /\ (isRoot \/ isTempRootParent)

\* the promotion: set the root, reattach, reinsert the old root, move its
\* temporary children
promote(m, id, s, oldRoot) ==
    LET m1 == [m EXCEPT !.trace[id.Trace] = s]
        m2 == reattachChildren(m1, s, oldRoot)
        m3 == insert(m2, s, oldRoot)
    IN  moveTempChildren(m3, s, oldRoot)

\* "Insert into trace tree."
needInsert(id, s, root) == ~IsRoot(id) /\ s # root

\* no reattachment to the collected node
needReattachNever(s, root) == FALSE

\* reattachment without the test s != root
needReattachAlways(s, root) == TRUE

\* "See if we're the parent of any of the root's temporary children."
needReattach(s, root) == s # root

\* Collect up to the creation of the trace tree: the span map, the node, its
\* annotations, the first root.
collectUpdate(m, id, as) ==
    createTree(createOrUpdate(m, id, as), id, spanNode(m, id))

\* Collect from the promotion check on.  s and root are the locals of
\* Collect: the node of id and the root of its trace.  The result is the new
\* state, and whether a reattachChildren call panicked.
collectTree(m, id) ==
    LET s == m.span[id.Trace][id.Span]
        root0 == m.trace[id.Trace]
        prom == needPromote(m, id, s, root0)
        m3 == IF prom THEN promote(m, id, s, root0) ELSE m
        root == IF prom THEN s ELSE root0
        m4 == IF needInsert(id, s, root) THEN insert(m3, root, s) ELSE m3
        m5 == IF needReattach(s, root) THEN reattachChildren(m4, s, root) ELSE m4
    IN  [ms |-> m5,
         panic |-> \/ (prom /\ reattachPanics(s, root0))
                   \/ (needReattach(s, root) /\ reattachPanics(s, root))]

\* The body of Collect.
collect(m, id, as) == collectTree(collectUpdate(m, id, as), id)

\* a lookup that returns nil, nil for a trace it has not got
lookupNilError(m, t) ==
    [val |-> IF t \in DOMAIN m.trace THEN m.trace[t] ELSE 0, err |-> "nil"]

\* ms.Trace: the root of the trace, or ErrTraceNotFound
lookup(m, t) ==
    IF t \in DOMAIN m.trace
    THEN [val |-> m.trace[t], err |-> "nil"]
    ELSE [val |-> 0, err |-> "ErrTraceNotFound"]

RECURSIVE collectAll(_, _)
collectAll(m, calls) ==
    IF calls = <<>> THEN m
    ELSE collectAll(collect(m, Head(calls).id, Head(calls).as).ms, Tail(calls))

(***************************************************************************)
(* Callers.  A thread is idle (pc "idle") or inside a call of the store;   *)
(* frame holds the call's arguments and locals: id and as of Collect, tid  *)
(* of Trace (inner: called from Traces), and of Traces the keys of         *)
(* ms.trace still to visit (rem) and the list built so far (ts).           *)
(***************************************************************************)
NoFrame == [id |-> SpanID(0, 0, 0), as |-> <<>>, tid |-> 0, inner |-> FALSE,
            rem |-> {}, ts |-> <<>>]

\* val is the value returned and ts the []*Trace that Traces returns
NoRet == [op |-> "none", val |-> 0, err |-> "none", ts |-> <<>>]

Return(op, r) == [op |-> op, val |-> r.val, err |-> r.err, ts |-> <<>>]

NilErr(v) == [val |-> v, err |-> "nil"]

Idle == /\ mu = 0
        /\ \A t \in Threads : pc[t] = "idle"
        /\ ~panicked

(***************************************************************************)
(* Collect as one call of a single caller: Lock, the body, the deferred    *)
(* Unlock, return nil.                                                     *)
(***************************************************************************)
Collect(id, as) ==
    /\ Idle
    /\ LET r == collect(ms, id, as)
       IN  /\ ms' = r.ms
           /\ panicked' = r.panic
    /\ hist' = Append(hist, Call(id, as))
    /\ ret' = Return("Collect", NilErr(0))
    /\ UNCHANGED <<mu, pc, frame, workload, sid, text>>

(***************************************************************************)
(* Collect, Trace and Traces called by concurrent threads.  ms.Lock() is   *)
(* taken when the mutex is free; the deferred ms.Unlock() runs with the    *)
(* return.                                                                 *)
(***************************************************************************)
\* a Lock that does not wait
canLockAnyway(t) == TRUE

canLock(t) == mu = 0

\* ms.Lock() of Collect
CollectLock(t, c) ==
    /\ ~panicked
    /\ pc[t] = "idle"
    /\ canLock(t)
    /\ mu' = t
    /\ pc' = [pc EXCEPT ![t] = "Collect"]
    /\ frame' = [frame EXCEPT ![t] = [NoFrame EXCEPT !.id = c.id, !.as = c.as]]
    /\ hist' = Append(hist, c)
    /\ UNCHANGED <<ms, ret, panicked, workload, sid, text>>

\* Collect: span map, node, annotations, first root
CollectUpdate(t) ==
    /\ ~panicked
    /\ pc[t] = "Collect"
    /\ ms' = collectUpdate(ms, frame[t].id, frame[t].as)
    /\ pc' = [pc EXCEPT ![t] = "CollectTree"]
    /\ UNCHANGED <<mu, frame, ret, panicked, hist, workload, sid, text>>

\* Collect: promotion, insertion, reattachment, Unlock, return nil
CollectTree(t) ==
    /\ ~panicked
    /\ pc[t] = "CollectTree"
    /\ LET r == collectTree(ms, frame[t].id)
       IN  /\ ms' = r.ms
           /\ panicked' = r.panic
           /\ pc' = [pc EXCEPT ![t] = IF r.panic THEN "panic" ELSE "idle"]
           /\ ret' = IF r.panic THEN ret ELSE Return("Collect", NilErr(0))
    /\ mu' = 0
    /\ frame' = [frame EXCEPT ![t] = NoFrame]
    /\ UNCHANGED <<hist, workload, sid, text>>

\* ms.Lock() of Trace, called by a client or by Traces
TraceLock(t, tid) ==
    /\ ~panicked
    /\ pc[t] \in {"idle", "TracesCall"}
    /\ pc[t] = "TracesCall" => tid = frame[t].tid
    /\ canLock(t)
    /\ mu' = t
    /\ pc' = [pc EXCEPT ![t] = "Trace"]
    /\ frame' = [frame EXCEPT ![t].tid = tid, ![t].inner = (pc[t] = "TracesCall")]
    /\ UNCHANGED <<ms, ret, panicked, hist, workload, sid, text>>

\* Trace: the lookup, Unlock, return; back in Traces' loop when it made
\* the call
TraceRun(t) ==
    /\ ~panicked
    /\ pc[t] = "Trace"
    /\ LET r == lookup(ms, frame[t].tid)
       IN  IF ~frame[t].inner
           THEN /\ ret' = Return("Trace", r)
                /\ pc' = [pc EXCEPT ![t] = "idle"]
                /\ frame' = [frame EXCEPT ![t] = NoFrame]
           ELSE IF r.err # "nil"
           THEN /\ ret' = Return("Traces", [val |-> 0, err |-> r.err])
                /\ pc' = [pc EXCEPT ![t] = "idle"]
                /\ frame' = [frame EXCEPT ![t] = NoFrame]
           ELSE /\ ret' = ret
                /\ pc' = [pc EXCEPT ![t] = "Traces"]
                /\ frame' = [frame EXCEPT ![t].ts = Append(@, r.val)]
    /\ mu' = 0
    /\ UNCHANGED <<ms, panicked, hist, workload, sid, text>>

\* ms.Lock() of Traces, and the start of its range over ms.trace
TracesLock(t) ==
    /\ ~panicked
    /\ pc[t] = "idle"
    /\ canLock(t)
    /\ mu' = t
    /\ pc' = [pc EXCEPT ![t] = "Traces"]
    /\ frame' = [frame EXCEPT ![t] = [NoFrame EXCEPT !.rem = DOMAIN ms.trace]]
    /\ UNCHANGED <<ms, ret, panicked, hist, workload, sid, text>>

\* Traces: the next key of ms.trace, in any order, and the call of
\* ms.Trace(id) for it; after the last one Unlock and return ts
TracesLoop(t) ==
    /\ ~panicked
    /\ pc[t] = "Traces"
    /\ IF frame[t].rem = {}
       THEN /\ ret' = [Return("Traces", NilErr(0)) EXCEPT !.ts = frame[t].ts]
            /\ pc' = [pc EXCEPT ![t] = "idle"]
            /\ frame' = [frame EXCEPT ![t] = NoFrame]
            /\ mu' = 0
       ELSE /\ \E id \in frame[t].rem :
                  frame' = [frame EXCEPT ![t].tid = id, ![t].rem = @ \ {id}]
            /\ pc' = [pc EXCEPT ![t] = "TracesCall"]
            /\ UNCHANGED <<ret, mu>>
    /\ UNCHANGED <<ms, panicked, hist, workload, sid, text>>

(***************************************************************************)
(* Workloads.                                                              *)
(***************************************************************************)
Spans == 1..NumSpans

\* par[s] is the parent of span s; 0 for the root
RECURSIVE climbs(_, _, _)
climbs(par, s, n) ==
    IF s = 0 THEN TRUE
    ELSE IF n = 0 THEN FALSE
    ELSE climbs(par, par[s], n - 1)

CompleteTrace(par) ==
    /\ Cardinality({s \in DOMAIN par : par[s] = 0}) = 1
    /\ \A s \in DOMAIN par : climbs(par, s, Cardinality(DOMAIN par))

TraceCalls(t, par) == {Call(SpanID(t, s, par[s]), NoAnnotations) : s \in DOMAIN par}

Collected == {hist[i] : i \in DOMAIN hist}

InitStore ==
    /\ ms = NewMemoryStore
    /\ mu = 0
    /\ pc = [t \in Threads |-> "idle"]
    /\ frame = [t \in Threads |-> NoFrame]
    /\ ret = NoRet
    /\ panicked = FALSE
    /\ hist = <<>>
    /\ sid = SpanID(0, 0, 0)
    /\ text = <<>>

InitTree ==
    /\ InitStore
    /\ \E par \in [Spans -> 0..NumSpans] :
          /\ CompleteTrace(par)
          /\ workload = TraceCalls(1, par)

CollectOnce ==
    \E c \in workload \ Collected : Collect(c.id, c.as)

NextTree == CollectOnce

SpecTree == InitTree /\ [][NextTree]_vars

\* the spans of a complete trace, reported again and again
CollectAgain ==
    /\ Len(hist) < MaxRecollect
    /\ \E c \in workload : Collect(c.id, c.as)

NextRecollect == CollectAgain

SpecRecollect == InitTree /\ [][NextRecollect]_vars

\* any SpanIDs of one trace: zero ids, spans that are their own parent,
\* cycles, one span reported with several parents
AnyIDs == 0..MaxID

InitAny ==
    /\ InitStore
    /\ workload = {Call(SpanID(1, s, p), NoAnnotations) : s \in AnyIDs, p \in AnyIDs}

CollectAny ==
    /\ Len(hist) < MaxAnyCalls
    /\ \E c \in workload : Collect(c.id, c.as)

NextAny == CollectAny

SpecAny == InitAny /\ [][NextAny]_vars

(***************************************************************************)
(* Concurrent callers: two traces, each a root span 1 and its child 2,     *)
(* reported any number of times, each time with an annotation.              *)
(***************************************************************************)
TraceIDs == {1, 2}

Anns == {<<"a">>, <<"b">>}

InitCalls ==
    /\ InitStore
    /\ workload = {Call(SpanID(t, s, s - 1), as) : t \in TraceIDs, s \in {1, 2}, as \in Anns}

CallCollect(t) ==
    /\ Len(hist) < MaxCalls
    /\ \E c \in workload : CollectLock(t, c)

CallTrace(t) == \E tid \in TraceIDs : TraceLock(t, tid)

Next ==
    \E t \in Threads :
        \/ CallCollect(t)
        \/ CollectUpdate(t)
        \/ CollectTree(t)
        \/ CallTrace(t)
        \/ TraceRun(t)
        \/ TracesLock(t)
        \/ TracesLoop(t)

Spec == InitCalls /\ [][Next]_vars

\* A thread inside a call keeps running, and a thread waiting in ms.Lock()
\* gets the mutex if it is free again and again.
FairSpec ==
    /\ Spec
    /\ \A t \in Threads :
          /\ WF_vars(CollectUpdate(t))
          /\ WF_vars(CollectTree(t))
          /\ WF_vars(TraceRun(t))
          /\ WF_vars(TracesLoop(t))
          /\ SF_vars(pc[t] = "TracesCall" /\ CallTrace(t))

(***************************************************************************)
(* The tree of a trace.                                                    *)
(***************************************************************************)
Nodes == DOMAIN ms.heap

NodesOf(t) == {n \in Nodes : ms.heap[n].ID.Trace = t}

SubSet(n) == {ms.heap[n].Sub[i] : i \in DOMAIN ms.heap[n].Sub}

RECURSIVE reachFrom(_, _)
reachFrom(seen, k) ==
    IF k = 0 THEN seen
    ELSE reachFrom(seen \cup UNION {SubSet(n) : n \in seen}, k - 1)

Reachable(t) ==
    IF t \in DOMAIN ms.trace THEN reachFrom({ms.trace[t]}, Cardinality(Nodes)) ELSE {}

\* how many times node n occurs in the Sub lists of its trace
Occurrences(n) ==
    LET cnt(y) == Cardinality({i \in DOMAIN ms.heap[y].Sub : ms.heap[y].Sub[i] = n})
        RECURSIVE sum(_)
        sum(S) == IF S = {} THEN 0
                  ELSE LET y == CHOOSE y \in S : TRUE IN cnt(y) + sum(S \ {y})
    IN  sum(Nodes)

id_of(n) == ms.heap[n].ID

\* the collected calls have been made once each
OnceEach == Cardinality(Collected) = Len(hist)

\* every span of the workload's trace t has been collected
AllCollected(t) ==
    /\ \E c \in workload : c.id.Trace = t
    /\ \A c \in workload : c.id.Trace = t => c \in Collected

\* the root span and the parent/child pairs of trace t in store m
Shape(m, t) ==
    [root |-> m.heap[m.trace[t]].ID.Span,
     edges |-> UNION {{<<m.heap[y].ID.Span, m.heap[m.heap[y].Sub[i]].ID.Span>> :
                          i \in DOMAIN m.heap[y].Sub} :
                      y \in {n \in DOMAIN m.heap : m.heap[n].ID.Trace = t}}]

\* the calls of S in the order of their span identifiers
RECURSIVE BySpan(_)
BySpan(S) ==
    IF S = {} THEN <<>>
    ELSE LET c == CHOOSE c \in S : \A d \in S : c.id.Span <= d.id.Span
         IN  <<c>> \o BySpan(S \ {c})

ArrivedBySpan == \A i, j \in DOMAIN hist : i < j => hist[i].id.Span < hist[j].id.Span

(***************************************************************************)
(* C1: once every span of a complete trace has been collected once, in any *)
(* order, Trace(t) returns the node of the true root, and X is in Y's Sub  *)
(* list iff X's Parent is Y's Span, for all nodes X, Y of the trace.       *)
(***************************************************************************)
C1_StructuralCorrectness ==
    \A t \in DOMAIN ms.trace :
        (AllCollected(t) /\ OnceEach) =>
            /\ lookup(ms, t).err = "nil"
            /\ IsRoot(id_of(lookup(ms, t).val))
            /\ \A x, y \in NodesOf(t) :
                   x \in SubSet(y) <=> id_of(x).Parent = id_of(y).Span

\* a complete trace of depth three or more, collected leaf-first: the first
\* span collected is a grandchild, the true root comes last
C1_Witness ==
    /\ AllCollected(1)
    /\ OnceEach
    /\ IsRoot(hist[Len(hist)].id)
    /\ \E c \in workload : c.id.Span = hist[1].id.Parent /\ ~IsRoot(c.id)
    /\ hist[2].id.Span # hist[1].id.Parent

(***************************************************************************)
(* C2 as claimed: any set of spans of one trace, with or without the true  *)
(* root, collected once each in any two orders gives the same root and     *)
(* the same child sets.  The arrival order is compared with the order of   *)
(* the span identifiers.                                                   *)
(***************************************************************************)
C2_OrderIndependentAnySet ==
    (hist # <<>> /\ OnceEach) =>
        Shape(ms, 1) = Shape(collectAll(NewMemoryStore, BySpan(Collected)), 1)

(***************************************************************************)
(* C2 amended: a set of spans of one trace that contains the true root,    *)
(* whether or not it contains every parent, collected once each in any two *)
(* orders gives the same root and the same child sets.                     *)
(***************************************************************************)
C2_OrderIndependentWithRoot ==
    (OnceEach /\ \E c \in Collected : IsRoot(c.id)) =>
        Shape(ms, 1) = Shape(collectAll(NewMemoryStore, BySpan(Collected)), 1)

\* the true root is in, a span whose parent is missing is in, and the
\* arrival order is not the order of the span identifiers
C2_Witness ==
    /\ OnceEach
    /\ Len(hist) >= 3
    /\ ~IsRoot(hist[1].id)
    /\ \E c \in Collected : IsRoot(c.id)
    /\ \E c \in Collected : ~IsRoot(c.id) /\ \A d \in Collected : d.id.Span # c.id.Parent
    /\ ~ArrivedBySpan

(***************************************************************************)
(* C3: after any sequence of Collect calls, repeats included, every        *)
(* collected SpanID has exactly one node, and the node occurs at most once *)
(* in its tree: at most once over all Sub lists, and not both as the root  *)
(* and as a child.                                                         *)
(***************************************************************************)
C3_NoDuplicateNode ==
    /\ \A c \in Collected :
           Cardinality({n \in Nodes : id_of(n) = c.id}) = 1
    /\ \A n \in Nodes :
           Occurrences(n) + (IF ms.trace[id_of(n).Trace] = n THEN 1 ELSE 0) <= 1

(***************************************************************************)
(* C4: after every Collect call, every span collected so far for a trace   *)
(* is reachable from the node Trace(t) returns, along Sub lists.           *)
(***************************************************************************)
C4_AllReachable ==
    \A t \in DOMAIN ms.trace :
        /\ \A c \in Collected : c.id.Trace = t => spanPresent(ms, c.id)
        /\ NodesOf(t) \subseteq Reachable(t)

\* the first span collected was a temporary root, the second one its
\* temporary child, a later call has promoted a third node over them, and a
\* span has been collected again
C4_Witness ==
    /\ Len(hist) = 4
    /\ ~IsRoot(hist[1].id)
    /\ ~IsRoot(hist[2].id)
    /\ hist[2].id.Parent # hist[1].id.Span
    /\ hist[2].id.Span # hist[1].id.Parent
    /\ ms.trace[1] = 3
    /\ hist[4] = hist[1]

(***************************************************************************)
(* C5: a call of Traces eventually returns, with the lock released, the    *)
(* root of every known trace exactly once and nothing else.                *)
(***************************************************************************)
InTraces(t) == pc[t] \in {"Traces", "TracesCall"} \/ (pc[t] = "Trace" /\ frame[t].inner)

C5_TracesCompletes ==
    \A t \in Threads : InTraces(t) ~> (pc[t] = "idle" /\ mu # t)

(***************************************************************************)
(* C6: Trace(t) returns ErrTraceNotFound iff no Collect call for trace t   *)
(* has completed, and otherwise the current root of t with a nil error;    *)
(* Trace changes nothing in the store.                                     *)
(***************************************************************************)
CollectedFor(tid) == \E i \in DOMAIN hist : hist[i].id.Trace = tid

TraceReturns(t) == pc[t] = "Trace" /\ ~frame[t].inner /\ pc'[t] = "idle"

C6_TraceLookup ==
    [][\A t \in Threads :
          TraceReturns(t) =>
              /\ ret'.op = "Trace"
              /\ ret'.err = "ErrTraceNotFound" <=> ~CollectedFor(frame[t].tid)
              /\ ret'.err # "ErrTraceNotFound" =>
                     /\ ret'.err = "nil"
                     /\ ret'.val = ms.trace[frame[t].tid]
                     /\ ret'.val \in NodesOf(frame[t].tid)
              /\ ms' = ms]_vars

\* the child of trace 1 was collected before its root, and a Trace call then
\* returned the promoted root, the second node made
C6_Witness ==
    /\ mu = 0
    /\ ret.op = "Trace"
    /\ ret.err = "nil"
    /\ ret.val = 2
    /\ DOMAIN ms.trace = {1}
    /\ ms.trace[1] = 2

(***************************************************************************)
(* C7: the annotations of a span's node are the annotation lists of the    *)
(* Collect calls for that SpanID, one after the other in the order of the  *)
(* calls: nothing reordered, dropped or deduplicated.                      *)
(***************************************************************************)
RECURSIVE AnnotationsSent(_, _)
AnnotationsSent(calls, id) ==
    IF calls = <<>> THEN <<>>
    ELSE (IF Head(calls).id = id THEN Head(calls).as ELSE <<>>)
             \o AnnotationsSent(Tail(calls), id)

\* the calls whose annotations the store has taken in: all but the one of a
\* thread that holds the lock and has not yet run
Applied ==
    IF \E t \in Threads : pc[t] = "Collect" THEN SubSeq(hist, 1, Len(hist) - 1) ELSE hist

C7_AnnotationsAccumulate ==
    /\ \A n \in Nodes : ms.heap[n].Annotations = AnnotationsSent(Applied, id_of(n))
    /\ \A i \in DOMAIN Applied : \E n \in Nodes : id_of(n) = Applied[i].id

\* a span collected with "b", then another span, then the first again with
\* "a"
C7_Witness ==
    /\ Len(hist) = 3
    /\ mu = 0
    /\ hist[1].id = hist[3].id
    /\ hist[2].id # hist[1].id
    /\ hist[2].id.Trace = hist[1].id.Trace
    /\ hist[1].as = <<"b">>
    /\ hist[3].as = <<"a">>
    /\ \E n \in Nodes : ms.heap[n].Annotations = <<"b", "a">>

(***************************************************************************)
(* C8: in a trace with one span of Parent 0 and no zero span id, the       *)
(* Collect call that first collects that span leaves it the root, and      *)
(* after every later call, repeats included, Trace(t) still returns its    *)
(* node.                                                                   *)
(***************************************************************************)
C8_RealRootStays ==
    \A i \in DOMAIN hist :
        IsRoot(hist[i].id) =>
            /\ lookup(ms, hist[i].id.Trace).err = "nil"
            /\ id_of(lookup(ms, hist[i].id.Trace).val) = hist[i].id

\* the true root came second, over a temporary root that is not its child,
\* and the temporary root and another span were collected after it
C8_Witness ==
    /\ Len(hist) = 4
    /\ ~IsRoot(hist[1].id)
    /\ hist[1].id.Parent # hist[2].id.Span
    /\ IsRoot(hist[2].id)
    /\ hist[3] = hist[1]
    /\ hist[4].id.Span = hist[1].id.Parent

(***************************************************************************)
(* The parents and ancestors of the spans of the workload.                 *)
(***************************************************************************)
WParent(span) == (CHOOSE c \in workload : c.id.Span = span).id.Parent

RECURSIVE IsAncestor(_, _, _)
IsAncestor(a, span, n) ==
    /\ n > 0
    /\ WParent(span) # 0
    /\ (WParent(span) = a \/ IsAncestor(a, WParent(span), n - 1))

\* the call a Collect step delivers, and the root span before and after it
Delivered == hist'[Len(hist')]

RootID == id_of(ms.trace[1])

RootID_next == ms'.heap[ms'.trace[1]].ID

DeliversTo(tempRoot) ==
    /\ hist' # hist
    /\ hist # <<>>
    /\ tempRoot = RootID
    /\ ~IsRoot(tempRoot)

(***************************************************************************)
(* C9 as claimed: while the true root has not been collected, the first    *)
(* span collected is the root, and a Collect call that delivers any        *)
(* ancestor of the current temporary root (parent, grandparent or higher)  *)
(* corrects the designation in that call: the former temporary root is no  *)
(* longer the root.                                                        *)
(***************************************************************************)
C9_AnyAncestorCorrects ==
    [][/\ (hist = <<>> /\ hist' # hist) => RootID_next = Delivered.id
       /\ \A c \in workload :
              (DeliversTo(c.id) /\ IsAncestor(Delivered.id.Span, c.id.Span, NumSpans))
                  => RootID_next # c.id]_vars

(***************************************************************************)
(* C9 amended: while the true root has not been collected, the first span  *)
(* collected is the root, and a Collect call that delivers the parent of   *)
(* the current temporary root, or the true root, corrects the designation  *)
(* in that call: the delivered span is the root afterwards.  Any other     *)
(* span, a higher ancestor that is not the true root included, leaves the  *)
(* temporary root in place.                                                *)
(***************************************************************************)
C9_ParentOrRootCorrects ==
    [][/\ (hist = <<>> /\ hist' # hist) => RootID_next = Delivered.id
       /\ \A c \in workload :
              DeliversTo(c.id) =>
                  IF Delivered.id.Span = c.id.Parent \/ IsRoot(Delivered.id)
                  THEN RootID_next = Delivered.id /\ RootID_next # c.id
                  ELSE RootID_next = c.id]_vars

\* a leaf was collected first, then its grandparent, which is not the true
\* root and left the leaf the root, then its parent, which is the root now
C9_Witness ==
    /\ Len(hist) = 3
    /\ \A i \in 1..3 : ~IsRoot(hist[i].id)
    /\ hist[2].id.Span = hist[3].id.Parent
    /\ hist[3].id.Span = hist[1].id.Parent
    /\ RootID = hist[3].id

(***************************************************************************)
(* C10: every Collect call, whatever the SpanIDs, their order and their    *)
(* repeats, returns a nil error, and reattachChildren is never called with *)
(* dst == src: the panic "dst == src" is unreachable.                      *)
(***************************************************************************)
C10_CollectInfallible ==
    /\ ~panicked
    /\ hist # <<>> => ret = Return("Collect", NilErr(0))

\* four calls with a span that is its own parent, a zero span id, a repeat,
\* and a promotion (the root is not the first node)
C10_Witness ==
    /\ Len(hist) = 4
    /\ ms.trace[1] # 1
    /\ \E n \in Nodes : id_of(n).Span = id_of(n).Parent
    /\ \E n \in Nodes : id_of(n).Span = 0
    /\ \E i, j \in DOMAIN hist : i < j /\ hist[i] = hist[j]

(***************************************************************************)
(* What the store holds of trace u: its root pointer, its span map and     *)
(* its nodes, by address.                                                  *)
(***************************************************************************)
TraceView(m, u) ==
    [trace |-> IF u \in DOMAIN m.trace THEN <<m.trace[u]>> ELSE <<>>,
     span |-> IF u \in DOMAIN m.span THEN <<m.span[u]>> ELSE <<>>,
     nodes |-> {<<n, m.heap[n]>> : n \in {k \in DOMAIN m.heap : m.heap[k].ID.Trace = u}}]

\* the tree of trace u without addresses: the root span, and for every
\* span of the trace its id, its annotations and the spans of its Sub list,
\* in order
Tree(m, u) ==
    IF u \notin DOMAIN m.trace THEN [root |-> 0, nodes |-> EmptyMap]
    ELSE [root |-> m.heap[m.trace[u]].ID.Span,
          nodes |-> [sp \in DOMAIN m.span[u] |->
                        LET n == m.heap[m.span[u][sp]]
                        IN  [ID |-> n.ID,
                             Annotations |-> n.Annotations,
                             Sub |-> [i \in DOMAIN n.Sub |-> m.heap[n.Sub[i]].ID.Span]]]]

CallsOf(calls, u) == SelectSeq(calls, LAMBDA c : c.id.Trace = u)

\* a Collect call in progress, at p and with locals f, works on trace u
Collecting(p, f, u) ==
    \E t \in Threads : p[t] \in {"Collect", "CollectTree"} /\ f[t].id.Trace = u

\* in store m after the calls h, every trace no Collect call is working on
\* has the tree that its own calls alone, in their order, give
TreesSeparate(m, h, p, f) ==
    \A u \in TraceIDs :
        ~Collecting(p, f, u) =>
            Tree(m, u) = Tree(collectAll(NewMemoryStore, CallsOf(h, u)), u)

(***************************************************************************)
(* C11: a Collect call for trace t leaves the root pointer, the span map   *)
(* and every node of every other trace unchanged; so for any interleaving  *)
(* of the Collect calls of two traces each trace's tree is the tree that   *)
(* its own calls alone give, in the same relative order.                   *)
(***************************************************************************)
C11_TraceIsolation ==
    [][/\ \A t \in Threads, u \in TraceIDs :
              (pc[t] \in {"Collect", "CollectTree"} /\ frame[t].id.Trace # u)
                  => TraceView(ms', u) = TraceView(ms, u)
       /\ TreesSeparate(ms', hist', pc', frame')]_vars

\* the root of trace 1, the root of trace 2, then the child of trace 1:
\* both trees are there and trace 1's root has its child
C11_Witness ==
    /\ mu = 0
    /\ Len(hist) = 3
    /\ hist[1].id = SpanID(1, 1, 0)
    /\ hist[2].id = SpanID(2, 1, 0)
    /\ hist[3].id = SpanID(1, 2, 1)
    /\ Tree(ms, 1).nodes[1].Sub = <<2>>
    /\ Tree(ms, 2).nodes[1].Sub = <<>>

(***************************************************************************)
(* The locked sections.                                                    *)
(***************************************************************************)
\* the threads between ms.Lock() and the deferred ms.Unlock(), at p
Inside(p) == {t \in Threads : p[t] \notin {"idle", "panic"}}

\* at most one thread is inside, and it holds the mutex
OneInside(p, holder) ==
    /\ Cardinality(Inside(p)) <= 1
    /\ \A t \in Inside(p) : holder = t

\* with no Collect call in progress, the store m is what the calls h give
\* when run one after the other
SerialResult(m, h, p) ==
    (\A t \in Threads : p[t] \notin {"Collect", "CollectTree"})
        => m = collectAll(NewMemoryStore, h)

(***************************************************************************)
(* C12: with several threads calling Collect and Trace, at most one call   *)
(* is inside its locked section at any time, the maps and the Trace nodes  *)
(* are written only by the thread holding the lock, and the store is what  *)
(* the same Collect calls give when run one after the other in the order   *)
(* in which they took the lock.                                            *)
(***************************************************************************)
C12_Serializable ==
    [][/\ OneInside(pc, mu) /\ OneInside(pc', mu')
       /\ ms' # ms => \E t \in Threads : mu = t /\ pc[t] \in {"Collect", "CollectTree"}
       /\ SerialResult(ms', hist', pc')]_vars

\* thread 2 holds the lock in the middle of the third Collect call, thread
\* 1 has to wait; a Trace call was the last to return
C12_Witness ==
    /\ Len(hist) = 3
    /\ mu = 2
    /\ pc[2] = "CollectTree"
    /\ pc[1] = "idle"
    /\ ret.op = "Trace"
    /\ ret.err = "nil"
    /\ ms # collectAll(NewMemoryStore, hist)

(***************************************************************************)
(* SpanID and its string form.  A string is a sequence of characters.      *)
(* The ID type, its String method, ParseID and generateID are not in       *)
(* span.go; they follow the package's description: a fixed-width           *)
(* identifier, zero meaning absent, written in lower-case hex.             *)
(***************************************************************************)
IDBytes == 1

MaxText == 6

HexDigit == <<"0", "1", "2", "3", "4", "5", "6", "7",
              "8", "9", "a", "b", "c", "d", "e", "f">>

isHex(c) == \E d \in DOMAIN HexDigit : HexDigit[d] = c

digitValue(c) == (CHOOSE d \in DOMAIN HexDigit : HexDigit[d] = c) - 1

RECURSIVE hex(_, _)
hex(v, n) ==
    IF n = 0 THEN <<>>
    ELSE Append(hex(v \div 16, n - 1), HexDigit[(v % 16) + 1])

RECURSIVE unhex(_)
unhex(s) ==
    IF s = <<>> THEN 0
    ELSE 16 * unhex(SubSeq(s, 1, Len(s) - 1)) + digitValue(s[Len(s)])

\* ID.String
IDString(id) == hex(id, 2 * IDBytes)

\* ParseID
ParseID(s) ==
    IF s # <<>> /\ Len(s) <= 2 * IDBytes /\ \A i \in DOMAIN s : isHex(s[i])
    THEN NilErr(unhex(s))
    ELSE [val |-> 0, err |-> "bad ID"]

\* the identifiers generateID() returns here
generateID == {1, 171}

SpanIDDelimiter == "/"

String(id) ==
    IF id.Parent = 0
    THEN IDString(id.Trace) \o <<SpanIDDelimiter>> \o IDString(id.Span)
    ELSE IDString(id.Trace) \o <<SpanIDDelimiter>> \o IDString(id.Span)
             \o <<SpanIDDelimiter>> \o IDString(id.Parent)

NewRootSpanID(trace, span) == SpanID(trace, span, 0)

NewSpanID(parent, span) == SpanID(parent.Trace, span, parent.Span)

\* strings.Split(s, sep) for a separator of one character
RECURSIVE Split(_, _)
Split(s, sep) ==
    LET at == {i \in DOMAIN s : s[i] = sep}
    IN  IF at = {} THEN <<s>>
        ELSE LET k == CHOOSE i \in at : \A j \in at : i <= j
             IN  <<SubSeq(s, 1, k - 1)>> \o Split(SubSeq(s, k + 1, Len(s)), sep)

ErrBadSpanID == [val |-> <<>>, err |-> "bad span ID"]

\* a ParseSpanID that forgets the parent
ParseSpanIDNoParent(s) ==
    LET parts == Split(s, SpanIDDelimiter)
    IN  IF Len(parts) # 2 /\ Len(parts) # 3 THEN ErrBadSpanID
        ELSE IF ParseID(parts[1]).err # "nil" THEN ErrBadSpanID
        ELSE IF ParseID(parts[2]).err # "nil" THEN ErrBadSpanID
        ELSE IF Len(parts) = 3 /\ ParseID(parts[3]).err # "nil" THEN ErrBadSpanID
        ELSE NilErr(<<SpanID(ParseID(parts[1]).val, ParseID(parts[2]).val, 0)>>)

\* a ParseSpanID that takes any string of two segments or more
ParseSpanIDTwoOrMore(s) ==
    LET parts == Split(s, SpanIDDelimiter)
    IN  IF Len(parts) < 2 THEN ErrBadSpanID
        ELSE IF ParseID(parts[1]).err # "nil" THEN ErrBadSpanID
        ELSE IF ParseID(parts[2]).err # "nil" THEN ErrBadSpanID
        ELSE IF Len(parts) >= 3 /\ ParseID(parts[3]).err # "nil" THEN ErrBadSpanID
        ELSE NilErr(<<SpanID(ParseID(parts[1]).val, ParseID(parts[2]).val,
                             IF Len(parts) >= 3 THEN ParseID(parts[3]).val ELSE 0)>>)

\* the result is <<>> for a nil *SpanID, else <<id>>
ParseSpanID(s) ==
    LET parts == Split(s, SpanIDDelimiter)
    IN  IF Len(parts) # 2 /\ Len(parts) # 3 THEN ErrBadSpanID
        ELSE IF ParseID(parts[1]).err # "nil" THEN ErrBadSpanID
        ELSE IF ParseID(parts[2]).err # "nil" THEN ErrBadSpanID
        ELSE IF Len(parts) = 3 /\ ParseID(parts[3]).err # "nil" THEN ErrBadSpanID
        ELSE NilErr(<<SpanID(ParseID(parts[1]).val, ParseID(parts[2]).val,
                             IF Len(parts) = 3 THEN ParseID(parts[3]).val ELSE 0)>>)

(***************************************************************************)
(* A caller that generates SpanIDs, formats the one it holds and parses    *)
(* the string it holds; the string it starts with is any short text.       *)
(***************************************************************************)
TextChars == {"1", "f", "g", SpanIDDelimiter}

Texts == UNION {[1..n -> TextChars] : n \in 0..MaxText}

InitSpanID ==
    /\ ms = NewMemoryStore
    /\ mu = 0
    /\ pc = [t \in Threads |-> "idle"]
    /\ frame = [t \in Threads |-> NoFrame]
    /\ ret = NoRet
    /\ panicked = FALSE
    /\ hist = <<>>
    /\ workload = {}
    /\ sid = SpanID(0, 0, 0)
    /\ text \in Texts

CallNewRootSpanID ==
    /\ \E trace \in generateID, span \in generateID :
          sid' = NewRootSpanID(trace, span)
    /\ ret' = Return("NewRootSpanID", NilErr(<<sid'>>))
    /\ UNCHANGED <<ms, mu, pc, frame, panicked, hist, workload, text>>

\* the parent is a SpanID made by NewRootSpanID or NewSpanID
CallNewSpanID ==
    /\ sid.Span # 0
    /\ \E span \in generateID : sid' = NewSpanID(sid, span)
    /\ ret' = Return("NewSpanID", NilErr(<<sid'>>))
    /\ UNCHANGED <<ms, mu, pc, frame, panicked, hist, workload, text>>

CallString ==
    /\ sid.Span # 0
    /\ text' = String(sid)
    /\ ret' = Return("String", NilErr(text'))
    /\ UNCHANGED <<ms, mu, pc, frame, panicked, hist, workload, sid>>

CallParseSpanID ==
    /\ ret' = Return("ParseSpanID", ParseSpanID(text))
    /\ UNCHANGED <<ms, mu, pc, frame, panicked, hist, workload, sid, text>>

NextSpanID ==
    \/ CallNewRootSpanID
    \/ CallNewSpanID
    \/ CallString
    \/ CallParseSpanID

SpecSpanID == InitSpanID /\ [][NextSpanID]_vars

\* the number of segments of s
Segments(s) == Cardinality({i \in DOMAIN s : s[i] = SpanIDDelimiter}) + 1

(***************************************************************************)
(* C13: for every SpanID s built by NewRootSpanID, or by NewSpanID from    *)
(* such an id, with all identifiers non-zero, ParseSpanID(s.String())      *)
(* succeeds and yields a SpanID equal to s in Trace, Span and Parent; a    *)
(* root id encodes to two segments and a child id to three.                *)
(***************************************************************************)
C13_RoundTrip ==
    /\ sid.Span # 0 =>
          /\ ParseSpanID(String(sid)) = NilErr(<<sid>>)
          /\ Segments(String(sid)) = IF IsRoot(sid) THEN 2 ELSE 3
    /\ (ret.op = "ParseSpanID" /\ text = String(sid)) =>
          /\ ret.err = "nil"
          /\ ret.val = <<sid>>

\* a child SpanID has been formatted and parsed back
C13_Witness ==
    /\ ret.op = "ParseSpanID"
    /\ sid = SpanID(171, 1, 171)
    /\ text = String(sid)
    /\ Segments(text) = 3
    /\ ret.val = <<sid>>

(***************************************************************************)
(* C14: ParseSpanID returns ErrBadSpanID and no SpanID for every string    *)
(* of one segment or of four or more segments, and for every string of     *)
(* two or three segments one of which is not a decodable hex identifier;   *)
(* it returns a SpanID only for two or three segments that all decode.     *)
(***************************************************************************)
Decodable(s) ==
    \A i \in 1..Segments(s) : ParseID(Split(s, SpanIDDelimiter)[i]).err = "nil"

C14_ParseRejection ==
    ret.op = "ParseSpanID" =>
        /\ Len(Split(text, SpanIDDelimiter)) = Segments(text)
        /\ IF Segments(text) \in {2, 3} /\ Decodable(text)
           THEN ret.err = "nil" /\ Len(ret.val) = 1
           ELSE ret = Return("ParseSpanID", ErrBadSpanID)

\* a string of four segments, the first three of them hex identifiers, has
\* been rejected
C14_Witness ==
    /\ ret.op = "ParseSpanID"
    /\ Segments(text) = 4
    /\ \A i \in 1..3 : ParseID(Split(text, SpanIDDelimiter)[i]).err = "nil"
    /\ ret.err = "bad span ID"
    /\ ret.val = <<>>

(***************************************************************************)
(* Where a collected node is kept.                                         *)
(***************************************************************************)
\* the nodes of store m whose Sub list holds node x
Holders(m, x) == {y \in DOMAIN m.heap : \E i \in DOMAIN m.heap[y].Sub : m.heap[y].Sub[i] = x}

\* how many times node x occurs in the Sub list of node y
TimesIn(m, y, x) == Cardinality({i \in DOMAIN m.heap[y].Sub : m.heap[y].Sub[i] = x})

\* the node that has to hold node x of trace t: the node of x's parent span
\* if that span has been collected, else the root of the trace
Place(m, t, x) ==
    IF m.heap[x].ID.Parent \in DOMAIN m.span[t]
    THEN m.span[t][m.heap[x].ID.Parent]
    ELSE m.trace[t]

(***************************************************************************)
(* C15: after every Collect call of a sequence that collects each SpanID   *)
(* of a trace at most once, every collected node other than the current    *)
(* root is in exactly one Sub list, that of the node whose Span is its     *)
(* Parent if that span has been collected and else that of the current     *)
(* root, and the current root is in no Sub list.                           *)
(***************************************************************************)
C15_Placement ==
    OnceEach =>
        \A t \in DOMAIN ms.trace :
            /\ Holders(ms, ms.trace[t]) = {}
            /\ \A x \in NodesOf(t) \ {ms.trace[t]} :
                  /\ Holders(ms, x) = {Place(ms, t, x)}
                  /\ TimesIn(ms, Place(ms, t, x), x) = 1

\* a node is parked under the current root while its parent is missing, next
\* to a node that is held by its collected parent
C15_Witness ==
    /\ OnceEach
    /\ 1 \in DOMAIN ms.trace
    /\ \E x, y \in NodesOf(1) \ {ms.trace[1]} :
          /\ id_of(x).Parent \notin DOMAIN ms.span[1]
          /\ x \in SubSet(ms.trace[1])
          /\ id_of(y).Parent \in DOMAIN ms.span[1]
          /\ id_of(y).Parent # id_of(ms.trace[1]).Span
          /\ y \in SubSet(ms.span[1][id_of(y).Parent])

(***************************************************************************)
(* Attachment to the true parent.                                          *)
(***************************************************************************)
\* node x is in the Sub list of the node y of its parent span, in store m
AtTrueParent(m, x, y) ==
    /\ x \in DOMAIN m.heap
    /\ y \in DOMAIN m.heap
    /\ m.heap[y].ID.Trace = m.heap[x].ID.Trace
    /\ m.heap[y].ID.Span = m.heap[x].ID.Parent
    /\ y \in Holders(m, x)

(***************************************************************************)
(* C16: in a sequence of Collect calls that collects each SpanID at most   *)
(* once, a node X that is in the Sub list of the node Y with Y.ID.Span =   *)
(* X.ID.Parent stays in Y's Sub list in every later state: no promotion    *)
(* and no reattachment moves a child away from its true parent, and no     *)
(* step puts it there a second time.                                       *)
(***************************************************************************)
C16_AttachmentStable ==
    [][OnceEach' =>
          \A x, y \in DOMAIN ms.heap :
              AtTrueParent(ms, x, y) =>
                  /\ AtTrueParent(ms', x, y)
                  /\ TimesIn(ms', y, x) = TimesIn(ms, y, x)]_vars

\* a child sits under a temporary root that is its true parent; another
\* span and then the true root have been collected, the root has changed,
\* and the child is still where it was
C16_Witness ==
    /\ OnceEach
    /\ Len(hist) = 4
    /\ hist[2].id.Parent = hist[1].id.Span
    /\ hist[3].id.Parent # hist[1].id.Span
    /\ ~IsRoot(hist[3].id)
    /\ IsRoot(hist[4].id)
    /\ hist[1].id.Parent # hist[4].id.Span
    /\ AtTrueParent(ms, ms.span[1][hist[2].id.Span], ms.span[1][hist[1].id.Span])
    /\ ms.trace[1] = ms.span[1][hist[4].id.Span]

====
